---- MODULE Spec2Model ----
(***************************************************************************)
(* A model of xmlparser.AbstractParser: the constructor's pipeline         *)
(* (schema compilation, argument validation, extraction, handling,         *)
(* derivation, validation, model construction) over a hierarchy of two     *)
(* parser classes, P(AbstractParser) and S(P), that share the class-level  *)
(* attributes Python's attribute lookup lets them share.                   *)
(*                                                                         *)
(* AbstractDjangoParser (model_params read off a Django model) is not      *)
(* modelled: every class here declares or inherits model_params.           *)
(***************************************************************************)
EXTENDS Naturals, Sequences, FiniteSets, TLC

(***************************************************************************)
(* Bounds of the model.                                                    *)
(***************************************************************************)
\* How many entries of the static-method table may differ from the table of
\* the test suite's StudentParser (see static_methods_choices).
MaxDeviations == 1

(***************************************************************************)
(* Names.                                                                  *)
(***************************************************************************)
Classes == {"P", "S"}
FieldNames == {"a", "b"}
\* keyword-argument names a caller may write: the fields and a stranger
KeyNames == FieldNames \cup {"g"}
ParamNames == {"a", "b", "full"}

(***************************************************************************)
(* Python values.  None, str (a sequence of characters), a 2-tuple of      *)
(* strs, and the result of a user function (an uninterpreted term: user    *)
(* functions are pure, so the term stands for the value).                  *)
(***************************************************************************)
None == <<"None">>
Str(chars) == <<"str", chars>>
Pair(p, a) == <<"pair", p, a>>
App(fn, args) == <<"app", fn, args>>
IsStr(v) == v[1] = "str"
IsPair(v) == v[1] = "pair"

\* a call's outcome: the value returned, or the exception raised
Ret(v) == [exc |-> "", val |-> v]
Raise(kind) == [exc |-> kind, val |-> None]

\* a dict
EmptyDict == [k \in {} |-> None]
Put(d, k, v) == [x \in (DOMAIN d) \cup {k} |-> IF x = k THEN v ELSE d[x]]

\* a class attribute that may not exist
Unset == [has |-> FALSE, v |-> {}]
Set(s) == [has |-> TRUE, v |-> s]

(***************************************************************************)
(* str.strip(), on a sequence of characters.                               *)
(***************************************************************************)
IsSpace(ch) == ch \in {" ", "\n"}

RECURSIVE lstrip(_)
lstrip(s) == IF s # <<>> /\ IsSpace(Head(s)) THEN lstrip(Tail(s)) ELSE s

RECURSIVE rstrip(_)
rstrip(s) ==
    IF s # <<>> /\ IsSpace(s[Len(s)]) THEN rstrip(SubSeq(s, 1, Len(s) - 1)) ELSE s

strip(s) == rstrip(lstrip(s))

(***************************************************************************)
(* The document.  An Element has a text (None or a str), attributes and    *)
(* children; Element.find(path) is the child of that tag, or None.  An     *)
(* optional Element is a sequence of length 0 or 1.                        *)
(***************************************************************************)
Leaf(text, attrib) == [text |-> text, attrib |-> attrib, children |-> EmptyDict]

\* <student num="1"> <x> v </x> <e/> </student>
Root ==
    [text |-> Str(<<"\n", " ">>),
     attrib |-> [k \in {"num"} |-> Str(<<"1">>)],
     children |-> [t \in {<<"x">>, <<"e">>} |->
                     IF t = <<"x">> THEN Leaf(Str(<<" ", "v", " ">>), EmptyDict)
                                    ELSE Leaf(None, EmptyDict)]]

\* xml.etree.ElementTree.Element.find: a path that is no str is a TypeError
Element_find(el, path) ==
    IF ~IsStr(path) THEN Raise("TypeError")
    ELSE IF path[2] \in DOMAIN el.children THEN Ret(<<el.children[path[2]]>>)
    ELSE Ret(<<>>)

__find_tag(root, rel_path) ==
    IF rel_path = Str(<<>>) THEN Ret(<<root>>) ELSE Element_find(root, rel_path)

__get_text(tag) == IF tag.text = None THEN None ELSE Str(strip(tag.text[2]))

__get_attr(tag, attr) == IF attr \in DOMAIN tag.attrib THEN tag.attrib[attr] ELSE None

__default_handler(data_value) == data_value

__default_from(data_value) == data_value

(***************************************************************************)
(* Classes and their attributes.  P derives from AbstractParser ("A") and  *)
(* S from P; getattr(cls, name) is the attribute of the first class of     *)
(* the method resolution order that has it.                                *)
(***************************************************************************)
AllClasses == Classes \cup {"A"}
Parent(c) == IF c = "S" THEN "P" ELSE "A"

RECURSIVE lookup(_, _)
lookup(attr, c) ==
    IF attr[c].has THEN attr[c]
    ELSE IF c = "A" THEN Unset
    ELSE lookup(attr, Parent(c))

hasattr(attr, c) == lookup(attr, c).has
getattr(attr, c) == lookup(attr, c).v

(***************************************************************************)
(* The functions a class defines, looked up by name at parse time:         *)
(* <field>_handler, <param>_from, validate_<param>, validate.  A function  *)
(* is its positional parameter names (inspect.getfullargspec(f)[0]) and    *)
(* what a call of it does: return a value, or raise.                       *)
(***************************************************************************)
handler_name(name) == <<name, "_handler">>
from_name(param) == <<param, "_from">>
validate_name(param) == <<"validate_", param>>
validate_all_name == <<"validate">>

Effects == {"return", "ValidationFail", "KeyError"}
Func(args, effect) == [args |-> args, effect |-> effect]

\* the call f(*args_values) of a user function named fn
Call(fn, f, args_values) ==
    IF f.effect = "return" THEN Ret(App(fn, args_values)) ELSE Raise(f.effect)

\* the functions of the test suite's StudentParser (a: name, b: surname)
StudentMethods ==
    (handler_name("a") :> Func(<<"a">>, "return")) @@
    (from_name("full") :> Func(<<"b", "a">>, "return")) @@
    (validate_name("full") :> Func(<<"full">>, "return")) @@
    (validate_all_name :> Func(<<"full", "b">>, "return"))

\* what a class may define under each of these names
FuncChoices(fn) ==
    IF fn = handler_name("a") THEN {Func(<<"a">>, e) : e \in Effects}
    ELSE IF fn = from_name("full")
        THEN {Func(<<"b", "a">>, e) : e \in Effects} \cup {Func(<<"b", "z">>, "return")}
    ELSE IF fn = validate_name("full") THEN {Func(<<"full">>, e) : e \in Effects}
    ELSE {Func(<<"full", "b">>, e) : e \in Effects} \cup {Func(<<"full", "a">>, "return")}

FuncNames == DOMAIN StudentMethods

Deviations(t) ==
    Cardinality({fn \in FuncNames : fn \notin DOMAIN t \/ t[fn] # StudentMethods[fn]})

\* a class defines a function under a name, or does not
NotDefined == Func(<<>>, "")

static_methods_choices ==
    LET tables == {[fn \in {n \in FuncNames : t[n] # NotDefined} |-> t[fn]] :
                    t \in [FuncNames -> UNION {FuncChoices(fn) : fn \in FuncNames}
                                        \cup {NotDefined}]}
    IN  {t \in tables : /\ \A fn \in DOMAIN t : t[fn] \in FuncChoices(fn)
                        /\ Deviations(t) <= MaxDeviations}

(***************************************************************************)
(* State.                                                                  *)
(***************************************************************************)
VARIABLES
    \* class attributes, by class: what the class statement declares, and,
    \* for data and internal_data, what __init__ assigns
    data, internal_data, internal_attr_data, external_data, model_params,
    static_methods,
    \* the constructor call in progress or last finished: its position, its
    \* arguments, the set a for-loop still has to visit, an exception raised
    pc, cls, kwargs, todo, error,
    \* the parser object under construction (self)
    tag, instance_data, items, handled_data, instance_model_params, model,
    \* what the call did: the user functions it called, with their arguments,
    \* and whether it looked into the tree
    calls, tree_read,
    \* a parser object the caller kept, to parse the same input again
    first

class_vars == <<data, internal_data, internal_attr_data, external_data, model_params,
                static_methods>>
call_vars == <<pc, cls, kwargs, todo, error>>
self_vars == <<tag, instance_data, items, handled_data, instance_model_params, model>>
vars == <<class_vars, call_vars, self_vars, calls, tree_read, first>>

\* an exception: its class, the stage that raised it, and what its message
\* names (a field, a parameter, "validate"; the names it lists)
NoError == [kind |-> "", at |-> "", who |-> "", names |-> {}]
Error(kind, at, who, names) == [kind |-> kind, at |-> at, who |-> who, names |-> names]
NoCalls == [fn \in FuncNames |-> <<>>]
NoParser == <<>>

\* the kinds of a class's fields, as the class statement gives them
Ext(c) == getattr(external_data, c)
Attr(c) == getattr(internal_attr_data, c)

(***************************************************************************)
(* The class statements.  AbstractParser declares the two empty kind sets; *)
(* P declares its kinds and model_params and may declare data; S may       *)
(* declare any of them again.  Field a is text; field b is of any kind;    *)
(* no class declares a field both external and an attribute.  A class that *)
(* is to take its data from model_params has field names for parameters.   *)
(***************************************************************************)
Opt(sets) == {Unset} \cup {Set(s) : s \in sets}

\* an attribute by class: AbstractParser's, P's, S's
ByClass(a, p, s) == [c \in AllClasses |-> IF c = "A" THEN a ELSE IF c = "P" THEN p ELSE s]

Declarations ==
    {decl \in {[d |-> ByClass(Unset, dp, ds), ia |-> ByClass(Set({}), Set(ip), is),
                e |-> ByClass(Set({}), Set(ep), es), mp |-> ByClass(Unset, Set(mpp), mps)] :
                    dp \in Opt({{"a"}, {"a", "b"}}), ds \in Opt({{"a", "b"}}),
                    ip \in {{}, {"b"}}, is \in Opt({{"b"}}),
                    ep \in {{}, {"b"}}, es \in Opt({{"b"}}),
                    mpp \in {{"a"}, {"a", "b"}, {"full", "b"}},
                    mps \in Opt({{"a", "b"}, {"full", "b"}})} :
        /\ \A c \in Classes :
            /\ getattr(decl.ia, c) \cap getattr(decl.e, c) = {}
            /\ ~hasattr(decl.d, c) => getattr(decl.mp, c) \subseteq FieldNames
        \* S declares what it adds to P: fields, a kind for b, parameters
        /\ decl.d["S"].has => decl.d["P"] = Set({"a"})
        /\ decl.ia["S"].has \/ decl.e["S"].has =>
            /\ decl.ia["P"] = Set({}) /\ decl.e["P"] = Set({})
            /\ getattr(decl.ia, "S") \cup getattr(decl.e, "S") = {"b"}
        /\ decl.mp["S"].has => decl.mp["P"] = Set({"a"})}

\* the hierarchy in which the functions vary: P is the test suite's
\* StudentParser cut to a text field a and an attribute field b, S adds nothing
StudentDeclaration ==
    [d |-> ByClass(Unset, Set({"a", "b"}), Unset),
     ia |-> ByClass(Set({}), Set({"b"}), Unset),
     e |-> ByClass(Set({}), Set({}), Unset),
     mp |-> ByClass(Unset, Set({"full", "b"}), Unset)]

Init ==
    /\ \E decl \in Declarations :
        /\ data = decl.d
        /\ internal_attr_data = decl.ia
        /\ external_data = decl.e
        /\ model_params = decl.mp
        /\ static_methods \in static_methods_choices
        /\ decl = StudentDeclaration \/ static_methods = StudentMethods
    /\ internal_data = [c \in AllClasses |-> Unset]
    /\ pc = "idle" /\ cls = "P" /\ kwargs = EmptyDict /\ todo = {} /\ error = NoError
    /\ tag = <<>> /\ instance_data = EmptyDict /\ items = <<>>
    /\ handled_data = EmptyDict /\ instance_model_params = EmptyDict /\ model = <<>>
    /\ calls = NoCalls /\ tree_read = FALSE
    /\ first = NoParser

(***************************************************************************)
(* What a caller passes for a key: for a field, a value of the shape its   *)
(* kind asks for (External: a value; InternalAttribute: (path, attribute); *)
(* Internal: a path).                                                      *)
(***************************************************************************)
ArgumentValues(c, k) ==
    IF k \notin FieldNames THEN {Str(<<"x">>)}
    ELSE IF k \in Ext(c) THEN {Str(<<"x">>)}
    ELSE IF k \in Attr(c)
        THEN {Pair(Str(<<>>), "num"), Pair(Str(<<"x">>), "num"), Pair(Str(<<"z">>), "num")}
    ELSE {Str(<<"x">>), Str(<<"e">>), Str(<<"z">>)}

Kwargs(c) ==
    UNION {{kw \in [K -> UNION {ArgumentValues(c, k) : k \in K}] :
                \A k \in K : kw[k] \in ArgumentValues(c, k)} : K \in SUBSET KeyNames}

(***************************************************************************)
(* __init__, lines 206-216: the class's schema is compiled if the class    *)
(* (or a class it inherits from) has none, the arguments are validated.    *)
(***************************************************************************)
\* cls.data after line 209
data_compiled(c) ==
    IF ~hasattr(data, c) THEN [data EXCEPT ![c] = Set(getattr(model_params, c))] ELSE data

\* line 211 with a second assignment when the attribute is there already
internal_data_recompiled(c, d) ==
    IF ~hasattr(internal_data, c)
    THEN [internal_data EXCEPT ![c] = Set(getattr(d, c) \ (Ext(c) \cup Attr(c)))]
    ELSE [internal_data EXCEPT ![c] = Set(getattr(d, c))]

\* cls.internal_data after line 211, given the data attribute d of line 209
internal_data_compiled(c, d) ==
    IF ~hasattr(internal_data, c)
    THEN [internal_data EXCEPT ![c] = Set(getattr(d, c) \ (Ext(c) \cup Attr(c)))]
    ELSE internal_data

\* __validate_args without the test of line 198
validate_args_no_missing(_data, kw) ==
    LET unknown == (DOMAIN kw) \ _data
    IN  IF unknown # {} THEN {Error("OddArguments", "args", "unknown", {k}) : k \in unknown}
        ELSE {}

\* __validate_args: the exceptions it may raise (which unknown key is met
\* first is the caller's order of writing the arguments); none if it returns
__validate_args(_data, kw) ==
    LET unknown == (DOMAIN kw) \ _data
        left == _data \ (DOMAIN kw)
    IN  IF unknown # {} THEN {Error("OddArguments", "args", "unknown", {k}) : k \in unknown}
        ELSE IF left # {} THEN {Error("OddArguments", "args", "missing", left)}
        ELSE {}

Construct(c, kw) ==
    LET d == data_compiled(c)
        raised == __validate_args(getattr(d, c), kw)
    IN  /\ data' = d
        /\ internal_data' = internal_data_compiled(c, d)
        /\ cls' = c /\ kwargs' = kw
        /\ handled_data' = EmptyDict /\ instance_model_params' = EmptyDict
        /\ model' = <<>> /\ items' = <<>> /\ instance_data' = EmptyDict
        /\ calls' = NoCalls /\ tree_read' = FALSE
        /\ IF raised # {}
           THEN /\ error' \in raised
                /\ pc' = "failed" /\ tag' = <<>> /\ todo' = {}
           ELSE /\ error' = NoError
                /\ pc' = "extract" /\ tag' = <<Root>> /\ todo' = getattr(d, c)
        /\ UNCHANGED <<internal_attr_data, external_data, model_params, static_methods>>

Returned == pc \in {"built", "failed"}

\* a caller constructs a parser
New(c, kw) ==
    /\ pc = "idle"
    /\ Construct(c, kw)
    /\ UNCHANGED first

\* the caller lets go of what the last call gave, and of what it kept
Forget ==
    /\ pc \in {"built", "failed"}
    /\ pc' = "idle" /\ kwargs' = EmptyDict /\ todo' = {} /\ error' = NoError
    /\ cls' = "P"
    /\ tag' = <<>> /\ instance_data' = EmptyDict /\ items' = <<>>
    /\ handled_data' = EmptyDict /\ instance_model_params' = EmptyDict /\ model' = <<>>
    /\ calls' = NoCalls /\ tree_read' = FALSE
    /\ first' = NoParser
    /\ UNCHANGED class_vars

\* the class's schema, as a parse of class c finds it
Schema(c) ==
    [data |-> lookup(data, c), internal_data |-> lookup(internal_data, c),
     model_params |-> lookup(model_params, c)]

\* a caller keeps what the call gave (the parser, or the exception) and
\* constructs a parser of the same class from the same arguments
Again ==
    /\ Returned /\ first = NoParser
    /\ first' = <<[cls |-> cls, kwargs |-> kwargs, pc |-> pc, error |-> error,
                   instance_data |-> instance_data, handled_data |-> handled_data,
                   instance_model_params |-> instance_model_params,
                   schema |-> Schema(cls)]>>
    /\ Construct(cls, kwargs)

(***************************************************************************)
(* The stages of __init__ after argument validation, in program order, and *)
(* where control goes when a loop has nothing (left) to visit.             *)
(***************************************************************************)
\* the program with lines 263-275 moved above line 256
NextStage_validate_all_first(stage) ==
    CASE stage = "extract" -> "handle"
      [] stage = "handle" -> "derive"
      [] stage = "derive" -> "validate_all"
      [] stage = "validate_all" -> "validate"
      [] stage = "validate" -> "build"
      [] OTHER -> "built"

NextStage(stage) ==
    CASE stage = "extract" -> "handle"
      [] stage = "handle" -> "derive"
      [] stage = "derive" -> "validate"
      [] stage = "validate" -> "validate_all"
      [] stage = "validate_all" -> "build"
      [] OTHER -> "built"

\* the stage that runs next once `stage` is over, for a class of parameters
\* mp whose object holds n_items raw values
RECURSIVE Enter(_, _, _)
Enter(stage, n_items, mp) ==
    IF \/ stage = "handle" /\ n_items = 0
       \/ stage \in {"derive", "validate"} /\ mp = {}
    THEN Enter(NextStage(stage), n_items, mp)
    ELSE stage

(***************************************************************************)
(* Lines 217-229: the raw value of one field.  The three tests are made    *)
(* one after the other, each on the class's attribute as getattr finds it. *)
(***************************************************************************)
\* lines 220-224; kw_value is kwargs[data]
extract_attr(root, kw_value) ==
    IF ~IsPair(kw_value) THEN [exc |-> "ValueError", val |-> None, read |-> FALSE]
    ELSE LET t == __find_tag(root, kw_value[2])
         IN  IF t.exc # "" THEN [exc |-> t.exc, val |-> None, read |-> TRUE]
             ELSE [exc |-> "", read |-> TRUE,
                   val |-> IF t.val # <<>> THEN __get_attr(t.val[1], kw_value[3]) ELSE None]

\* lines 226-229
extract_text(root, kw_value) ==
    LET t == __find_tag(root, kw_value)
    IN  IF t.exc # "" THEN [exc |-> t.exc, val |-> None, read |-> TRUE]
        ELSE [exc |-> "", read |-> TRUE,
              val |-> IF t.val # <<>> THEN __get_text(t.val[1]) ELSE None]

\* the object's instance_data after the loop body for field d, or the
\* exception the body raised; read: whether it looked into the tree
extract(c, d, kw, root, inst) ==
    LET s1 == IF d \in Ext(c) THEN Put(inst, d, kw[d]) ELSE inst
        r2 == IF d \in Attr(c) THEN extract_attr(root, kw[d])
              ELSE [exc |-> "", val |-> None, read |-> FALSE]
        s2 == IF d \in Attr(c) /\ r2.exc = "" THEN Put(s1, d, r2.val) ELSE s1
        r3 == IF r2.exc = "" /\ d \in getattr(internal_data, c) THEN extract_text(root, kw[d])
              ELSE [exc |-> "", val |-> None, read |-> FALSE]
        s3 == IF r2.exc = "" /\ d \in getattr(internal_data, c) /\ r3.exc = ""
              THEN Put(s2, d, r3.val) ELSE s2
    IN  [exc |-> IF r2.exc # "" THEN r2.exc ELSE r3.exc,
         val |-> s3,
         read |-> r2.read \/ r3.read]

Fail(kind, who, names) ==
    /\ pc' = "failed"
    /\ error' = Error(kind, pc, who, names)

Extract ==
    /\ pc = "extract"
    /\ \E d \in todo :
        LET r == extract(cls, d, kwargs, tag[1], instance_data)
            new == (DOMAIN r.val) \ (DOMAIN instance_data)
            its == IF d \in new THEN Append(items, d) ELSE items
        IN  /\ instance_data' = r.val
            /\ items' = its
            /\ tree_read' = (tree_read \/ r.read)
            /\ IF r.exc # ""
               THEN /\ Fail(r.exc, d, {})
                    /\ UNCHANGED todo
               ELSE IF todo = {d}
               THEN /\ pc' = Enter(NextStage(pc), Len(its), getattr(model_params, cls))
                    /\ todo' = getattr(model_params, cls)
                    /\ UNCHANGED error
               ELSE /\ todo' = todo \ {d}
                    /\ UNCHANGED <<pc, error>>
    /\ UNCHANGED <<class_vars, cls, kwargs, tag, handled_data, instance_model_params,
                   model, calls, first>>

(***************************************************************************)
(* Lines 231-236: the handlers, in the order the raw values were inserted. *)
(***************************************************************************)
Called(fn, args_values) == [calls EXCEPT ![fn] = Append(@, args_values)]

\* line 235-236: the handled value, or the exception the handler raised
handle(name, value) ==
    IF handler_name(name) \in DOMAIN static_methods
    THEN Call(handler_name(name), static_methods[handler_name(name)], <<value>>)
    ELSE Ret(__default_handler(value))

Handle ==
    /\ pc = "handle"
    /\ LET name == Head(items)
           r == handle(name, instance_data[name])
       IN  /\ calls' = IF handler_name(name) \in DOMAIN static_methods
                       THEN Called(handler_name(name), <<instance_data[name]>>)
                       ELSE calls
           /\ IF r.exc # ""
              THEN /\ Fail(r.exc, name, {})
                   /\ UNCHANGED <<handled_data, items>>
              ELSE /\ handled_data' = Put(handled_data, name, r.val)
                   /\ items' = Tail(items)
                   /\ pc' = IF Tail(items) = <<>>
                            THEN Enter(NextStage(pc), 0, getattr(model_params, cls))
                            ELSE pc
                   /\ UNCHANGED error
    /\ UNCHANGED <<class_vars, cls, kwargs, todo, tag, instance_data,
                   instance_model_params, model, tree_read, first>>

(***************************************************************************)
(* Dependency resolution, lines 247-253 and 268-274: the values of the     *)
(* function's parameters args in the mapping d, or the first name of args  *)
(* that d has no entry for.                                                *)
(***************************************************************************)
Min(S) == CHOOSE x \in S : \A y \in S : x <= y

first_missing(args, d) ==
    LET bad == {i \in 1..Len(args) : args[i] \notin DOMAIN d}
    IN  IF bad = {} THEN 0 ELSE Min(bad)

args_values(args, d) == [i \in 1..Len(args) |-> d[args[i]]]

(***************************************************************************)
(* Lines 239-254: one model parameter.                                     *)
(***************************************************************************)
Derive ==
    /\ pc = "derive"
    /\ \E param \in todo :
        LET fn == from_name(param)
            registered == fn \in DOMAIN static_methods
            args == static_methods[fn].args
            m == first_missing(args, handled_data)
            r == IF ~registered
                 THEN IF param \in DOMAIN handled_data
                      THEN Ret(__default_from(handled_data[param]))
                      ELSE Raise("KeyError")
                 ELSE IF m # 0 THEN Raise("OddFromFunc")
                 ELSE Call(fn, static_methods[fn], args_values(args, handled_data))
        IN  /\ calls' = IF registered /\ m = 0
                        THEN Called(fn, args_values(args, handled_data))
                        ELSE calls
            /\ IF r.exc # ""
               THEN /\ Fail(r.exc, param, IF registered /\ m # 0 THEN {args[m]} ELSE {})
                    /\ UNCHANGED <<instance_model_params, todo>>
               ELSE /\ instance_model_params' = Put(instance_model_params, param, r.val)
                    /\ todo' = IF todo = {param} THEN getattr(model_params, cls)
                               ELSE todo \ {param}
                    /\ pc' = IF todo = {param}
                             THEN Enter(NextStage(pc), 0, getattr(model_params, cls))
                             ELSE pc
                    /\ UNCHANGED error
    /\ UNCHANGED <<class_vars, cls, kwargs, tag, instance_data, items, handled_data,
                   model, tree_read, first>>

(***************************************************************************)
(* Lines 256-261: the validator of one model parameter.  The call is made  *)
(* inside the try block whose except clause is meant for the lookup.       *)
(***************************************************************************)
\* the exception that leaves the try statement of lines 257-261 when the
\* validator's call ended as r
validate_try(r) == IF r.exc = "KeyError" THEN "" ELSE r.exc

Validate ==
    /\ pc = "validate"
    /\ \E param \in todo :
        LET fn == validate_name(param)
            registered == fn \in DOMAIN static_methods
            value == <<instance_model_params[param]>>
            exc == IF registered THEN validate_try(Call(fn, static_methods[fn], value))
                   ELSE ""
        IN  /\ calls' = IF registered THEN Called(fn, value) ELSE calls
            /\ IF exc # ""
               THEN /\ Fail(exc, param, {})
                    /\ UNCHANGED todo
               ELSE /\ todo' = todo \ {param}
                    /\ pc' = IF todo = {param} THEN NextStage(pc) ELSE pc
                    /\ UNCHANGED error
    /\ UNCHANGED <<class_vars, cls, kwargs, self_vars, tree_read, first>>

(***************************************************************************)
(* Lines 263-275: the validator of the whole object.                       *)
(***************************************************************************)
ValidateAll ==
    /\ pc = "validate_all"
    /\ LET fn == validate_all_name
           registered == fn \in DOMAIN static_methods
           args == static_methods[fn].args
           m == first_missing(args, instance_model_params)
           r == IF ~registered THEN Ret(None)
                ELSE IF m # 0 THEN Raise("OddFromFunc")
                ELSE Call(fn, static_methods[fn], args_values(args, instance_model_params))
       IN  /\ calls' = IF registered /\ m = 0
                       THEN Called(fn, args_values(args, instance_model_params))
                       ELSE calls
           /\ IF r.exc # ""
              THEN Fail(r.exc, "validate", IF registered /\ m # 0 THEN {args[m]} ELSE {})
              ELSE /\ pc' = NextStage(pc)
                   /\ UNCHANGED error
    /\ UNCHANGED <<class_vars, cls, kwargs, todo, self_vars, tree_read, first>>

(***************************************************************************)
(* Line 277: the model.                                                    *)
(***************************************************************************)
Build ==
    /\ pc = "build"
    /\ model' = <<instance_model_params>>
    /\ pc' = NextStage(pc)
    /\ UNCHANGED <<class_vars, cls, kwargs, todo, error, tag, instance_data, items,
                   handled_data, instance_model_params, calls, tree_read, first>>

Start == pc = "idle" /\ \E c \in Classes : \E kw \in Kwargs(c) : New(c, kw)

Next == Start \/ Again \/ Forget \/ Extract \/ Handle \/ Derive \/ Validate \/ ValidateAll \/ Build

Spec == Init /\ [][Next]_vars

(***************************************************************************)
(* Properties.                                                             *)
(***************************************************************************)
Registered(fn) == fn \in DOMAIN static_methods

InOrder(args, d) == [i \in 1..Len(args) |-> d[args[i]]]

\* the parse has resolved the dependencies of param's deriver
DeriverResolved(param) ==
    \/ param \in DOMAIN instance_model_params
    \/ pc = "failed" /\ error.at = "derive" /\ error.who = param

\* the parse has resolved the dependencies of validate
ValidateAllResolved ==
    \/ pc \in {"build", "built"}
    \/ pc = "failed" /\ error.at = "validate_all"

\* C2, as stated: once a parse has resolved the dependencies of a registered
\* deriver of a model parameter, it has failed there with OddFromFunc if a
\* dependency is outside the class's data set (the keys of handled data),
\* and otherwise it has called the deriver exactly once, with the handled
\* values of its dependencies in declared order; likewise validate, against
\* model_params and the model-parameter mapping.
C2_OncePerParse ==
    /\ \A param \in getattr(model_params, cls) :
        Registered(from_name(param)) /\ DeriverResolved(param) =>
            LET fn == from_name(param)
                f == static_methods[fn]
                outside == {i \in 1..Len(f.args) : f.args[i] \notin getattr(data, cls)}
                failed_here == /\ pc = "failed" /\ error.at = "derive"
                               /\ error.who = param /\ error.kind = "OddFromFunc"
            IN  /\ failed_here <=> outside # {}
                /\ outside = {} =>
                    /\ \A i \in 1..Len(f.args) : f.args[i] \in DOMAIN handled_data
                    /\ calls[fn] = <<InOrder(f.args, handled_data)>>
    /\ Registered(validate_all_name) /\ ValidateAllResolved =>
        LET fn == validate_all_name
            f == static_methods[fn]
            outside == {i \in 1..Len(f.args) : f.args[i] \notin getattr(model_params, cls)}
            failed_here == /\ pc = "failed" /\ error.at = "validate_all"
                           /\ error.kind = "OddFromFunc"
        IN  /\ failed_here <=> outside # {}
            /\ outside = {} =>
                /\ \A i \in 1..Len(f.args) : f.args[i] \in DOMAIN instance_model_params
                /\ calls[fn] = <<InOrder(f.args, instance_model_params)>>

\* What lines 247-254 and 268-275 do, whatever the schema: no function is
\* called twice in a parse; when a parse comes to resolve the dependencies of
\* a registered deriver, it fails there with OddFromFunc (naming the first
\* missing dependency, the function not called) exactly when a dependency
\* has no entry in handled data, and otherwise calls the function once with
\* the handled values in declared order; likewise validate against the
\* model-parameter mapping; a function whose resolution the parse never
\* reached is not called.
ResolvedOnce ==
    /\ \A fn \in FuncNames : Len(calls[fn]) <= 1
    /\ \A param \in ParamNames :
        Registered(from_name(param)) =>
            LET fn == from_name(param)
                f == static_methods[fn]
                m == {i \in 1..Len(f.args) : f.args[i] \notin DOMAIN handled_data}
                failed_here == /\ pc = "failed" /\ error.at = "derive"
                               /\ error.who = param /\ error.kind = "OddFromFunc"
            IN  IF DeriverResolved(param)
                THEN /\ failed_here <=> m # {}
                     /\ m # {} => /\ calls[fn] = <<>>
                                  /\ \E i \in m : /\ error.names = {f.args[i]}
                                                  /\ \A j \in m : i <= j
                     /\ m = {} => calls[fn] = <<InOrder(f.args, handled_data)>>
                ELSE calls[fn] = <<>>
    /\ Registered(validate_all_name) =>
        LET fn == validate_all_name
            f == static_methods[fn]
            m == {i \in 1..Len(f.args) : f.args[i] \notin DOMAIN instance_model_params}
            failed_here == /\ pc = "failed" /\ error.at = "validate_all"
                           /\ error.kind = "OddFromFunc"
        IN  IF ValidateAllResolved
            THEN /\ failed_here <=> m # {}
                 /\ m # {} => /\ calls[fn] = <<>>
                              /\ \E i \in m : /\ error.names = {f.args[i]}
                                              /\ \A j \in m : i <= j
                 /\ m = {} => calls[fn] = <<InOrder(f.args, instance_model_params)>>
            ELSE calls[fn] = <<>>

\* validate's dependency is missing, after the deriver full_from was called
\* with the handled values of b and a
ResolvedOnce_Witness ==
    /\ pc = "failed" /\ error.at = "validate_all" /\ error.kind = "OddFromFunc"
    /\ DOMAIN handled_data = {"a", "b"}
    /\ calls[from_name("full")] = <<<<handled_data["b"], handled_data["a"]>>>>
    /\ calls[validate_all_name] = <<>>

\* C3, as stated: a model parameter without a deriver takes the handled value
\* of its name unchanged, and where handled data has no such entry the parse
\* fails with the configuration error UndeclaredDefaultParam, not with a
\* ValidationFail or a bare lookup error.
C3_DefaultParam ==
    \A param \in ParamNames :
        ~Registered(from_name(param)) =>
            /\ param \in DOMAIN instance_model_params =>
                /\ param \in DOMAIN handled_data
                /\ instance_model_params[param] = handled_data[param]
            /\ pc = "failed" /\ error.at = "derive" /\ error.who = param =>
                /\ param \notin DOMAIN handled_data
                /\ error.kind = "UndeclaredDefaultParam"

(***************************************************************************)
(* What the document holds at the place a caller's argument names.         *)
(***************************************************************************)
NodeAt(path) ==
    IF path = Str(<<>>) THEN <<Root>>
    ELSE IF path[2] \in DOMAIN Root.children THEN <<Root.children[path[2]]>>
    ELSE <<>>

\* the argument names no node, a node without the attribute, or one without text
Absent(kw_value) ==
    IF IsPair(kw_value)
    THEN \/ NodeAt(kw_value[2]) = <<>>
         \/ kw_value[3] \notin DOMAIN NodeAt(kw_value[2])[1].attrib
    ELSE \/ NodeAt(kw_value) = <<>>
         \/ NodeAt(kw_value)[1].text = None

\* the parse got past argument validation / past extraction
ArgsValidated == pc # "idle" /\ ~(pc = "failed" /\ error.at = "args")
Extracted == ArgsValidated /\ pc # "extract" /\ ~(pc = "failed" /\ error.at = "extract")

\* C4, as stated: extraction never raises; a field of data that is not
\* external and whose argument resolves to no node, attribute or text has the
\* raw value None; its handled value is None without a handler, and with one
\* it is what the handler, called with None, returned.
C4_AbsentIsNone ==
    /\ ~(pc = "failed" /\ error.at = "extract")
    /\ Extracted =>
        \A d \in getattr(data, cls) \ Ext(cls) :
            Absent(kwargs[d]) =>
                /\ d \in DOMAIN instance_data /\ instance_data[d] = None
                /\ d \in DOMAIN handled_data =>
                    IF Registered(handler_name(d))
                    THEN /\ calls[handler_name(d)] = <<<<None>>>>
                         /\ handled_data[d] = App(handler_name(d), <<None>>)
                    ELSE handled_data[d] = None

\* C5, as stated: a handler, deriver or validator that raised ended the
\* parse with the exception it raised, and no Model was constructed.
C5_RaiseAborts ==
    \A fn \in FuncNames :
        Registered(fn) /\ calls[fn] # <<>> /\ static_methods[fn].effect # "return" =>
            /\ pc = "failed"
            /\ error.kind = static_methods[fn].effect
            /\ model = <<>>

\* C6, as stated: a Model exists only when the parse is over without an
\* error, every stage having completed without one (the arguments matched
\* data, every field that has a kind has a raw and a handled value, every
\* function called returned), and it is built from the mapping of exactly
\* the model parameters; a failed parse has no Model.
C6_ModelOnlyWhenAllPassed ==
    /\ pc = "failed" => model = <<>>
    /\ model # <<>> =>
        /\ pc = "built" /\ error = NoError
        /\ DOMAIN kwargs = getattr(data, cls)
        /\ DOMAIN handled_data = DOMAIN instance_data
        /\ model = <<instance_model_params>>
        /\ DOMAIN instance_model_params = getattr(model_params, cls)
        /\ \A fn \in FuncNames : calls[fn] # <<>> => static_methods[fn].effect = "return"

(***************************************************************************)
(* C7.  The stage a parse is in, or failed in, and its place in the order. *)
(***************************************************************************)
At == IF pc = "failed" THEN error.at ELSE pc

Rank(stage) ==
    CASE stage = "args" -> 0
      [] stage = "extract" -> 1
      [] stage = "handle" -> 2
      [] stage = "derive" -> 3
      [] stage = "validate" -> 4
      [] stage = "validate_all" -> 5
      [] stage = "build" -> 6
      [] stage = "built" -> 7
      [] OTHER -> 0

\* the fields the extraction loop gives a raw value
HaveKind(c) == {d \in getattr(data, c) :
                    d \in Ext(c) \cup Attr(c) \cup getattr(internal_data, c)}

C7_Order ==
    pc # "idle" =>
        LET r == Rank(At)
            mp == getattr(model_params, cls)
        IN  \* argument validation before any tree access
            /\ r = 0 => ~tree_read /\ tag = <<>> /\ instance_data = EmptyDict
            /\ r >= 1 => DOMAIN kwargs = getattr(data, cls)
            \* every field extracted before any handler
            /\ handled_data # EmptyDict \/ calls[handler_name("a")] # <<>> => r >= 2
            /\ r >= 2 => DOMAIN instance_data = HaveKind(cls)
            \* every handler before any deriver
            /\ instance_model_params # EmptyDict \/ calls[from_name("full")] # <<>> => r >= 3
            /\ r >= 3 => DOMAIN handled_data = DOMAIN instance_data
            \* every parameter derived before any validator
            /\ calls[validate_name("full")] # <<>> => r >= 4
            /\ r >= 4 => DOMAIN instance_model_params = mp
            \* every per-parameter validator before the whole-object validator
            /\ calls[validate_all_name] # <<>> => r >= 5
            /\ r >= 5 => \A param \in mp :
                            Registered(validate_name(param)) =>
                                Len(calls[validate_name(param)]) = 1
            \* the Model last
            /\ r >= 6 /\ Registered(validate_all_name) => Len(calls[validate_all_name]) = 1
            /\ model # <<>> => r = 7

\* a step of a parse under way moves forward, and fails in the stage it is in
C7_Forward ==
    pc \notin {"idle", "built", "failed"} =>
        /\ pc' \notin {"idle"}
        /\ IF pc' = "failed" THEN error'.at = pc
           ELSE Rank(pc') >= Rank(pc) /\ Rank(pc') <= Rank(pc) + 1

\* C7: the stages of a parse run in the order argument validation,
\* extraction, handlers, derivers, per-parameter validators, whole-object
\* validator, model construction: what a stage does is seen only once every
\* earlier stage has visited all it visits, no step goes back, and a failure
\* is terminal and belongs to the stage that was running.
C7_Sequential == []C7_Order /\ [][C7_Forward]_vars

\* a parse that went through every stage, every registered function called
C7_Witness ==
    /\ pc = "built" /\ model # <<>>
    /\ \A fn \in FuncNames : Len(calls[fn]) = 1
    /\ tree_read

\* Failed is reached from each stage
C7_FailedInArgs == pc = "failed" /\ error.at = "args"
C7_FailedInExtract == pc = "failed" /\ error.at = "extract"
C7_FailedInHandle == pc = "failed" /\ error.at = "handle"
C7_FailedInDerive == pc = "failed" /\ error.at = "derive"
C7_FailedInValidate == pc = "failed" /\ error.at = "validate"
C7_FailedInValidateAll == pc = "failed" /\ error.at = "validate_all"

\* C8, as stated: the same class, root and arguments, parsed again, fail
\* with the same kind of error, whatever order the loops over the sets data
\* and model_params take.
C8_SameErrorKind ==
    first # NoParser /\ first[1].pc = "failed" /\ pc = "failed" =>
        error.kind = first[1].error.kind

\* C9: while a successful parse's result is kept, a second parse of the same
\* class, root and arguments finds the class's schema (data, internal_data,
\* model_params) as the first one left it, and ends successful too, with the
\* same raw data, handled data and model parameters.
C9_Idempotent ==
    first # NoParser /\ first[1].pc = "built" =>
        /\ cls = first[1].cls /\ kwargs = first[1].kwargs
        /\ Schema(cls) = first[1].schema
        /\ Returned =>
            /\ pc = "built"
            /\ instance_data = first[1].instance_data
            /\ handled_data = first[1].handled_data
            /\ instance_model_params = first[1].instance_model_params

\* a second successful parse beside the first
C9_Witness ==
    /\ first # NoParser /\ first[1].pc = "built" /\ pc = "built"
    /\ DOMAIN instance_model_params = {"full", "b"}

\* C10, as stated: when extraction runs, the class's internal_data is its
\* data less its external and attribute fields, these two are disjoint, and
\* so every field of data is extracted by exactly one of the three rules.
C10_KindPartition ==
    ArgsValidated =>
        LET D == getattr(data, cls)
            I == getattr(internal_data, cls)
        IN  /\ I = D \ (Ext(cls) \cup Attr(cls))
            /\ Ext(cls) \cap Attr(cls) = {}
            /\ \A d \in D :
                Cardinality({k \in {"external", "attribute", "text"} :
                    \/ k = "external" /\ d \in Ext(cls)
                    \/ k = "attribute" /\ d \in Attr(cls)
                    \/ k = "text" /\ d \in I}) = 1
====
